---- MODULE Spec2Model ----
(***************************************************************************)
(* unshelve: a monitor that pings a cloud server and, when the ping fails  *)
(* and OpenStack reports the server SHELVED_OFFLOADED, sends Unshelve.     *)
(* Model of src/src/main.rs: main's command dispatch, server_info,         *)
(* unshelve_manual, ping_server and the loop of start_monitoring.          *)
(*                                                                         *)
(* Text (environment values, server names, ping targets) is a sequence of  *)
(* one-character strings.  A u64 is four 16-bit limbs, least significant   *)
(* first, so that parsing and `* 60` keep the width of the Rust type.      *)
(***************************************************************************)
EXTENDS Integers, Sequences, FiniteSets, TLC

\* Number of loop iterations of start_monitoring the model explores.
MaxCycles == 3

----------------------------------------------------------------------------
(* u64 arithmetic *)

LimbBase == 2 ^ 16

U64(n) == << n % LimbBase, (n \div LimbBase) % LimbBase, 0, 0 >>

\* x * k + a on 64 bits: the low 64 bits and the carry out of them.
MulAdd(x, k, a) ==
    LET p1 == x[1] * k + a
        p2 == x[2] * k + (p1 \div LimbBase)
        p3 == x[3] * k + (p2 \div LimbBase)
        p4 == x[4] * k + (p3 \div LimbBase)
    IN  [ val   |-> << p1 % LimbBase, p2 % LimbBase, p3 % LimbBase, p4 % LimbBase >>,
          carry |-> p4 \div LimbBase ]

U64Less(a, b) ==
    \E i \in 1..4 : a[i] < b[i] /\ \A j \in (i + 1)..4 : a[j] = b[j]

----------------------------------------------------------------------------
(* Text *)

Digits == << "0", "1", "2", "3", "4", "5", "6", "7", "8", "9" >>

IsDigit(c) == \E i \in 1..10 : Digits[i] = c

DigitVal(c) == (CHOOSE i \in 1..10 : Digits[i] = c) - 1

HexLetters == { "a", "b", "c", "d", "e", "f", "A", "B", "C", "D", "E", "F" }

IsHexDigit(c) == IsDigit(c) \/ c \in HexLetters

\* str::contains: pat occurs in s as a contiguous run (the empty pattern always does).
Contains(s, pat) ==
    \E i \in 0..(Len(s) - Len(pat)) :
        \A j \in 1..Len(pat) : s[i + j] = pat[j]

\* str::split on one character.
RECURSIVE Split(_, _)
Split(s, sep) ==
    IF \A i \in 1..Len(s) : s[i] # sep
    THEN << s >>
    ELSE LET k == CHOOSE i \in 1..Len(s) :
                      s[i] = sep /\ \A j \in 1..(i - 1) : s[j] # sep
         IN  << SubSeq(s, 1, k - 1) >> \o Split(SubSeq(s, k + 1, Len(s)), sep)

\* "<text>".parse::<u64>(): an optional '+', then one or more decimal digits,
\* failing on any other character and on a value above u64::MAX.
RECURSIVE ParseDigits(_, _)
ParseDigits(s, acc) ==
    IF s = << >> THEN [ ok |-> TRUE, val |-> acc ]
    ELSE IF ~ IsDigit(Head(s)) THEN [ ok |-> FALSE, val |-> U64(0) ]
    ELSE LET r == MulAdd(acc, 10, DigitVal(Head(s)))
         IN  IF r.carry # 0 THEN [ ok |-> FALSE, val |-> U64(0) ]
             ELSE ParseDigits(Tail(s), r.val)

ParseU64(s) ==
    LET body == IF s # << >> /\ Head(s) = "+" THEN Tail(s) ELSE s
    IN  IF body = << >> THEN [ ok |-> FALSE, val |-> U64(0) ]
        ELSE ParseDigits(body, U64(0))

\* One octet of a dotted quad: 1 to 3 digits, at most 255, no leading zero.
IsOctet(p) ==
    /\ Len(p) \in 1..3
    /\ \A i \in 1..Len(p) : IsDigit(p[i])
    /\ (Len(p) > 1 => p[1] # "0")
    /\ LET v == IF Len(p) = 1 THEN DigitVal(p[1])
                ELSE IF Len(p) = 2 THEN 10 * DigitVal(p[1]) + DigitVal(p[2])
                ELSE 100 * DigitVal(p[1]) + 10 * DigitVal(p[2]) + DigitVal(p[3])
       IN  v <= 255

IsIpv4(s) ==
    LET parts == Split(s, ".")
    IN  Len(parts) = 4 /\ \A i \in 1..4 : IsOctet(parts[i])

IsHextet(p) == Len(p) \in 1..4 /\ \A i \in 1..Len(p) : IsHexDigit(p[i])

\* The number of 16-bit groups a colon-separated run stands for, -1 if malformed;
\* at the end of the address (v4ok) the last piece may be a dotted quad, which
\* stands for two groups.
GroupCount(s, v4ok) ==
    IF s = << >> THEN 0
    ELSE LET parts == Split(s, ":")
             n     == Len(parts)
             v4    == v4ok /\ IsIpv4(parts[n])
         IN  IF /\ \A i \in 1..(n - 1) : IsHextet(parts[i])
                /\ (IsHextet(parts[n]) \/ v4)
             THEN (IF v4 THEN n + 1 ELSE n)
             ELSE -1

IsIpv6(s) ==
    LET gaps == { i \in 1..(Len(s) - 1) : s[i] = ":" /\ s[i + 1] = ":" }
    IN  IF gaps = {} THEN GroupCount(s, TRUE) = 8
        ELSE /\ Cardinality(gaps) = 1
             /\ LET g    == CHOOSE i \in gaps : TRUE
                    head == GroupCount(SubSeq(s, 1, g - 1), FALSE)
                    tail == GroupCount(SubSeq(s, g + 2, Len(s)), TRUE)
                IN  head >= 0 /\ tail >= 0 /\ head + tail <= 7

\* ip.parse::<IpAddr>() succeeds.
IsIpAddr(s) == IsIpv4(s) \/ IsIpv6(s)

----------------------------------------------------------------------------
(* The collaborators: environment file, command line, OpenStack, ICMP *)

None == [ set |-> FALSE, v |-> << >> ]
Some(t) == [ set |-> TRUE, v |-> t ]

\* The project's servers, in the order list_servers returns them.
Servers ==
    << [ id |-> << "a", "1" >>, name |-> << "w", "e", "b", "1" >> ],
       [ id |-> << "b", "2" >>, name |-> << "d", "b" >> ] >>

\* What Display prints for the status of a fetched server.
StatusStrings ==
    { "SHELVED_OFFLOADED", "ACTIVE", "SHELVED", "UNKNOWN", "shelved_offloaded" }

ServerNameValues ==
    { None, Some(<< "w", "e", "b", "1" >>), Some(<< "w", "e", "b" >>) }

PingIpValues ==
    { None, Some(<< "1", "0", ".", "0", ".", "0", ".", "5" >>),
      Some(<< "h", "o", "s", "t" >>) }

\* 307445734561825861 * 60 = 2^64 + 44.
PingIntervalValues ==
    { None, Some(<< "0" >>), Some(<< "1" >>), Some(<< "2" >>), Some(<< "x" >>),
      Some(<< "3", "0", "7", "4", "4", "5", "7", "3", "4", "5", "6", "1", "8", "2",
              "5", "8", "6", "1" >>) }

PingTimeoutValues == { None, Some(<< "1" >>), Some(<< "-", "1" >>) }

Identifiers ==
    { << "w", "e", "b", "1" >>, << "a", "1" >>, << "w", "e", "b" >>, << "z", "z" >> }

SocketTypes == { "dgram", "RAW", "tcp" }

Commands == { "start", "server-info", "unshelve" }

\* String::to_lowercase on the socket type names the model draws.
ToLowercase(t) == IF t = "RAW" THEN "raw" ELSE t

\* cloud.get_server(identifier): the server whose ID or name is the identifier,
\* with whatever status it has at that moment, or an error.
GetServerResults(identifier) ==
    LET hits == { i \in 1..Len(Servers) :
                      Servers[i].id = identifier \/ Servers[i].name = identifier }
    IN  { [ ok |-> FALSE, err |-> "transport", id |-> << >>, status |-> "" ] }
        \cup
        ( IF hits = {}
          THEN { [ ok |-> FALSE, err |-> "not_found", id |-> << >>, status |-> "" ] }
          ELSE { [ ok |-> TRUE, err |-> "", id |-> Servers[i].id, status |-> st ] :
                     i \in hits, st \in StatusStrings } )

\* servers.into_iter().find(|s| s.name().contains(server_identifier))
FindByName(identifier) ==
    LET hits == { i \in 1..Len(Servers) : Contains(Servers[i].name, identifier) }
    IN  IF hits = {} THEN 0 ELSE CHOOSE i \in hits : \A j \in hits : i <= j

Call(op, id, timeout) == [ op |-> op, id |-> id, timeout |-> timeout ]

----------------------------------------------------------------------------
(* State *)

VARIABLES
    command,        \* args.command
    identifier,     \* server_identifier of ServerInfo / Unshelve (Option<String>)
    socket_type,    \* socket_type of Start
    is_root,        \* is_sudo::check() = Root
    env,            \* the process environment once the config file is loaded
    pc,             \* where the process is
    failure,        \* the error the process ended with, "" if none
    cfg,            \* start_monitoring's locals read from the environment
    use_dgram_socket,
    interval,       \* `interval` of the monitor loop, in seconds
    interval_line,  \* the assignment that gave `interval` its value
    cycle,          \* iterations of the monitor loop begun
    server,         \* the server get_server returned, for the action that follows
    obs,            \* what the collaborators answered in the running cycle
    calls,          \* the calls made in the running cycle (or one-shot command)
    history         \* the completed cycles: obs, calls and the interval slept

vars == << command, identifier, socket_type, is_root, env, pc, failure, cfg,
           use_dgram_socket, interval, interval_line, cycle, server, obs, calls,
           history >>

NoCfg ==
    [ server_name |-> << >>, ping_ip |-> << >>,
      ping_interval_minutes |-> U64(0), ping_timeout_secs |-> U64(0) ]

NoObs == [ probe |-> "none", get |-> "none", status |-> "", act |-> "none" ]

NoServer == [ id |-> << >>, status |-> "" ]

Init ==
    /\ command \in Commands
    /\ identifier \in IF command = "start" THEN { None }
                      ELSE { None } \cup { Some(i) : i \in Identifiers }
    /\ socket_type \in IF command = "start" THEN SocketTypes ELSE { "dgram" }
    /\ is_root \in IF command = "start" /\ socket_type = "RAW" THEN BOOLEAN ELSE { FALSE }
    /\ env \in [ SERVER_NAME : ServerNameValues,
                 PING_IP : IF command = "start" THEN PingIpValues ELSE { None },
                 PING_INTERVAL_MINUTES :
                     IF command = "start" THEN PingIntervalValues ELSE { None },
                 PING_TIMEOUT_SECONDS :
                     IF command = "start" THEN PingTimeoutValues ELSE { None } ]
    /\ pc = "main"
    /\ failure = ""
    /\ cfg = NoCfg
    /\ use_dgram_socket = TRUE
    /\ interval = U64(0)
    /\ interval_line = "none"
    /\ cycle = 0
    /\ server = NoServer
    /\ obs = NoObs
    /\ calls = << >>
    /\ history = << >>

Exit(to, why) == pc' = to /\ failure' = why

----------------------------------------------------------------------------
(* main *)

\* main: load the environment file, then dispatch on the command.
Main ==
    /\ pc = "main"
    /\ UNCHANGED << command, socket_type, is_root, env, cfg, interval, interval_line,
                    cycle, server, obs, calls, history >>
    /\ \E loaded \in BOOLEAN :
        IF ~ loaded
        THEN /\ Exit("exit_err", "Failed to load environment from file")
             /\ UNCHANGED << identifier, use_dgram_socket >>
        ELSE IF command \in { "server-info", "unshelve" }
        THEN /\ UNCHANGED use_dgram_socket
             /\ IF identifier.set
                THEN Exit("init_cloud", "") /\ UNCHANGED identifier
                ELSE IF env.SERVER_NAME.set
                THEN Exit("init_cloud", "") /\ identifier' = env.SERVER_NAME
                ELSE /\ Exit("exit_err", "No server identifier provided and SERVER_NAME env var not set")
                     /\ UNCHANGED identifier
        ELSE /\ UNCHANGED identifier
             /\ LET lower == ToLowercase(socket_type)
                IN  IF lower = "raw"
                    THEN IF ~ is_root
                         THEN /\ Exit("exit_err", "For 'raw' socket type need privileged user")
                              /\ UNCHANGED use_dgram_socket
                         ELSE Exit("init_cloud", "") /\ use_dgram_socket' = FALSE
                    ELSE IF lower = "dgram"
                    THEN Exit("init_cloud", "") /\ use_dgram_socket' = TRUE
                    ELSE /\ Exit("exit_err", "Invalid socket type")
                         /\ UNCHANGED use_dgram_socket

\* init_cloud: authenticate; the unwrap panics when authentication fails.
InitCloud ==
    /\ pc = "init_cloud"
    /\ UNCHANGED << command, identifier, socket_type, is_root, env, cfg,
                    use_dgram_socket, interval, interval_line, cycle, server, obs,
                    calls, history >>
    /\ \E authenticated \in BOOLEAN :
        IF ~ authenticated
        THEN Exit("panicked", "Failed to authenticate with OpenStack")
        ELSE Exit(CASE command = "start" -> "start_monitoring"
                    [] command = "server-info" -> "server_info"
                    [] OTHER -> "unshelve_manual", "")

----------------------------------------------------------------------------
(* server_info *)

\* server_info up to the exact lookup: print the server, or go on to the listing.
ServerInfo ==
    /\ pc = "server_info"
    /\ UNCHANGED << command, identifier, socket_type, is_root, env, cfg,
                    use_dgram_socket, interval, interval_line, cycle, history >>
    /\ \E r \in GetServerResults(identifier.v) :
        /\ calls' = Append(calls, Call("get_server", identifier.v, U64(0)))
        /\ obs' = [ obs EXCEPT !.get = IF r.ok THEN "ok" ELSE r.err, !.status = r.status ]
        /\ IF r.ok
           THEN /\ server' = [ id |-> r.id, status |-> r.status ]
                /\ Exit("exit_ok", "")
           ELSE /\ UNCHANGED server
                /\ Exit("server_info_list", "")

\* server_info's Err arm: list the servers, take the first whose name contains
\* the identifier, fetch its details.
ServerInfoList ==
    /\ pc = "server_info_list"
    /\ UNCHANGED << command, identifier, socket_type, is_root, env, cfg,
                    use_dgram_socket, interval, interval_line, cycle, obs, history >>
    /\ \E listed \in BOOLEAN, detailed \in BOOLEAN, st \in StatusStrings :
        LET found == FindByName(identifier.v)
            list  == Call("list_servers", << >>, U64(0))
        IN  IF ~ listed
            THEN /\ calls' = Append(calls, list)
                 /\ UNCHANGED server
                 /\ Exit("exit_err", "Failed to fetch server list")
            ELSE IF found = 0
            THEN /\ calls' = Append(calls, list)
                 /\ UNCHANGED server
                 /\ Exit("exit_err", "Server not found")
            ELSE /\ calls' = calls \o << list, Call("details", Servers[found].id, U64(0)) >>
                 /\ IF detailed
                    THEN /\ server' = [ id |-> Servers[found].id, status |-> st ]
                         /\ Exit("exit_ok", "")
                    ELSE /\ UNCHANGED server
                         /\ Exit("exit_err", "details failed")

----------------------------------------------------------------------------
(* unshelve_manual *)

\* unshelve_manual: exact lookup, then Unshelve whatever the status; both errors
\* are printed and the command returns Ok.
UnshelveManual ==
    /\ pc = "unshelve_manual"
    /\ UNCHANGED << command, identifier, socket_type, is_root, env, cfg,
                    use_dgram_socket, interval, interval_line, cycle, history >>
    /\ \E r \in GetServerResults(identifier.v), act \in { "ack", "err" } :
        LET get == Call("get_server", identifier.v, U64(0))
        IN  IF r.ok
            THEN /\ server' = [ id |-> r.id, status |-> r.status ]
                 /\ calls' = calls \o << get, Call("action", r.id, U64(0)) >>
                 /\ obs' = [ obs EXCEPT !.get = "ok", !.status = r.status, !.act = act ]
                 /\ Exit("exit_ok", "")
            ELSE /\ UNCHANGED server
                 /\ calls' = Append(calls, get)
                 /\ obs' = [ obs EXCEPT !.get = r.err ]
                 /\ Exit("exit_ok", "")

----------------------------------------------------------------------------
(* start_monitoring *)

\* env::var(name).unwrap_or_else(|_| default).parse::<u64>()
ParseOr(value, default) == ParseU64(IF value.set THEN value.v ELSE default)

\* LoadConfig with SERVER_NAME read by unwrap_or_default: a missing name is "".
LoadConfigNameDefaulted(e) ==
    LET minutes == ParseOr(e.PING_INTERVAL_MINUTES, << "5" >>)
        timeout == ParseOr(e.PING_TIMEOUT_SECONDS, << "3" >>)
        err     == IF ~ e.PING_IP.set THEN "PING_IP not set in environment"
                   ELSE IF ~ minutes.ok THEN "PING_INTERVAL_MINUTES must be a number"
                   ELSE IF ~ timeout.ok THEN "PING_TIMEOUT_SECONDS must be a number"
                   ELSE ""
    IN  [ err |-> err,
          cfg |-> IF err # "" THEN NoCfg
                  ELSE [ server_name |-> e.SERVER_NAME.v, ping_ip |-> e.PING_IP.v,
                         ping_interval_minutes |-> minutes.val,
                         ping_timeout_secs |-> timeout.val ] ]

\* The configuration start_monitoring reads before the loop, or the error that
\* ends it; the variables are read in this order.
LoadConfig(e) ==
    LET minutes == ParseOr(e.PING_INTERVAL_MINUTES, << "5" >>)
        timeout == ParseOr(e.PING_TIMEOUT_SECONDS, << "3" >>)
        err     == IF ~ e.SERVER_NAME.set THEN "SERVER_NAME not set in environment"
                   ELSE IF ~ e.PING_IP.set THEN "PING_IP not set in environment"
                   ELSE IF ~ minutes.ok THEN "PING_INTERVAL_MINUTES must be a number"
                   ELSE IF ~ timeout.ok THEN "PING_TIMEOUT_SECONDS must be a number"
                   ELSE ""
    IN  [ err |-> err,
          cfg |-> IF err # "" THEN NoCfg
                  ELSE [ server_name |-> e.SERVER_NAME.v, ping_ip |-> e.PING_IP.v,
                         ping_interval_minutes |-> minutes.val,
                         ping_timeout_secs |-> timeout.val ] ]

\* start_monitoring before the loop.
StartMonitoring ==
    /\ pc = "start_monitoring"
    /\ UNCHANGED << command, identifier, socket_type, is_root, env, use_dgram_socket,
                    interval, interval_line, cycle, server, obs, calls, history >>
    /\ LET c == LoadConfig(env)
       IN  /\ cfg' = c.cfg
           /\ IF c.err # "" THEN Exit("exit_err", c.err) ELSE Exit("loop_top", "")

\* NormalInterval with `interval` declared before the loop: it keeps the value
\* the previous cycle left in it.
NormalIntervalKept(minutes) ==
    IF cycle = 0 THEN MulAdd(minutes, 60, 0) ELSE [ val |-> interval, carry |-> 0 ]

\* ping_interval_minutes * 60: the low 64 bits and the overflow.
NormalInterval(minutes) == MulAdd(minutes, 60, 0)

\* Duration::from_secs(1 * 60)
RecoveringInterval == MulAdd(U64(1), 60, 0).val

\* The top of the loop body: `interval` is declared afresh.  A product that
\* overflows u64 panics in a build with overflow checks and wraps in one without.
LoopTop ==
    /\ pc = "loop_top"
    /\ cycle < MaxCycles
    /\ UNCHANGED << command, identifier, socket_type, is_root, env, cfg,
                    use_dgram_socket, history >>
    /\ cycle' = cycle + 1
    /\ obs' = NoObs
    /\ calls' = << >>
    /\ server' = NoServer
    /\ LET n == NormalInterval(cfg.ping_interval_minutes)
       IN  \E overflow_checks \in BOOLEAN :
            IF n.carry # 0 /\ overflow_checks
            THEN /\ Exit("panicked", "attempt to multiply with overflow")
                 /\ UNCHANGED << interval, interval_line >>
            ELSE /\ interval' = n.val
                 /\ interval_line' = "300"
                 /\ Exit("ping", "")

\* AfterPing without the test of the probe's result.
AfterPingAlwaysChecks(is_ping_successful) == "get_server"

\* if is_ping_successful { } else { ... }
AfterPing(is_ping_successful) == IF is_ping_successful THEN "sleep" ELSE "get_server"

\* ping_server: the target is parsed as an IP address and the unwrap panics when
\* it is none; a timeout and a send error alike are `false`.
Ping ==
    /\ pc = "ping"
    /\ UNCHANGED << command, identifier, socket_type, is_root, env, cfg,
                    use_dgram_socket, interval, interval_line, cycle, server, history >>
    /\ calls' = Append(calls, Call("ping", cfg.ping_ip, cfg.ping_timeout_secs))
    /\ IF ~ IsIpAddr(cfg.ping_ip)
       THEN /\ obs' = [ obs EXCEPT !.probe = "panic" ]
            /\ Exit("panicked", "called Result::unwrap() on an Err value")
       ELSE \E sent \in { "reply", "timeout", "error" } :
            LET is_ping_successful == (sent = "reply")
            IN  /\ obs' = [ obs EXCEPT !.probe = IF is_ping_successful THEN "reply" ELSE "failed" ]
                /\ Exit(AfterPing(is_ping_successful), "")

\* IsShelvedOffloaded as an else branch: anything but ACTIVE is unshelved.
IsNotActive(status) == status # "ACTIVE"

\* IsShelvedOffloaded with a memory: no second Unshelve once one was sent.
IsShelvedOffloadedOnce(status) ==
    /\ status = "SHELVED_OFFLOADED"
    /\ \A i \in DOMAIN history : \A k \in DOMAIN history[i].calls :
           history[i].calls[k].op # "action"

\* status.to_string() == "SHELVED_OFFLOADED"
IsShelvedOffloaded(status) == status = "SHELVED_OFFLOADED"

\* AfterGetServerErr with a retry of the lookup in the same cycle.
AfterGetServerErrRetry == "get_server"

\* The Err arm of the get_server match: print, fall through to the sleep.
AfterGetServerErr == "sleep"

\* cloud.get_server(&server_name) and the match on its result, up to the action.
GetServer ==
    /\ pc = "get_server"
    /\ UNCHANGED << command, identifier, socket_type, is_root, env, cfg,
                    use_dgram_socket, interval, interval_line, cycle, history >>
    /\ calls' = Append(calls, Call("get_server", cfg.server_name, U64(0)))
    /\ \E r \in GetServerResults(cfg.server_name) :
        /\ obs' = [ obs EXCEPT !.get = IF r.ok THEN "ok" ELSE r.err, !.status = r.status ]
        /\ IF r.ok
           THEN /\ server' = [ id |-> r.id, status |-> r.status ]
                /\ Exit(IF IsShelvedOffloaded(r.status) THEN "action" ELSE "sleep", "")
           ELSE /\ UNCHANGED server
                /\ Exit(AfterGetServerErr, "")

\* IntervalAfterAction with the assignment moved out of the Ok arm.
IntervalAfterActionAlways(acked, current) == RecoveringInterval

\* The interval after server.action(Unshelve) returned: one minute on Ok,
\* unchanged on Err.
IntervalAfterAction(acked, current) == IF acked THEN RecoveringInterval ELSE current

\* The Err arm of the action match: print, fall through to the sleep.
AfterActionErr == "sleep"

\* server.action(ServerAction::Unshelve) and the match on its result.
Action ==
    /\ pc = "action"
    /\ UNCHANGED << command, identifier, socket_type, is_root, env, cfg,
                    use_dgram_socket, cycle, server, history >>
    /\ calls' = Append(calls, Call("action", server.id, U64(0)))
    /\ \E act \in { "ack", "err" } :
        /\ obs' = [ obs EXCEPT !.act = act ]
        /\ interval' = IntervalAfterAction(act = "ack", interval)
        /\ interval_line' = IF act = "ack" THEN "324" ELSE interval_line
        /\ Exit(IF act = "ack" THEN "sleep" ELSE AfterActionErr, "")

\* sleep(interval).await, then the next iteration.
Sleep ==
    /\ pc = "sleep"
    /\ UNCHANGED << command, identifier, socket_type, is_root, env, cfg,
                    use_dgram_socket, interval, interval_line, cycle, server, obs,
                    calls, failure >>
    /\ history' = Append(history, [ obs |-> obs, calls |-> calls, slept |-> interval,
                                    line |-> interval_line ])
    /\ pc' = "loop_top"

Next ==
    \/ Main
    \/ InitCloud
    \/ ServerInfo
    \/ ServerInfoList
    \/ UnshelveManual
    \/ StartMonitoring
    \/ LoopTop
    \/ Ping
    \/ GetServer
    \/ Action
    \/ Sleep

Spec == Init /\ [][Next]_vars

----------------------------------------------------------------------------
(* Vocabulary of the properties *)

Count(cs, op) == Cardinality({ i \in DOMAIN cs : cs[i].op = op })

ProbeFailed(o) == o.probe = "failed"

GetFailed(o) == o.get \in { "transport", "not_found" }

\* The cycles the loop has been through: the completed ones and the running one.
Cycles ==
    [ i \in 1..Len(history) |-> [ obs |-> history[i].obs, calls |-> history[i].calls ] ]
    \o ( IF command = "start" /\ cycle > Len(history)
         THEN << [ obs |-> obs, calls |-> calls ] >> ELSE << >> )

InCycle == pc \in { "ping", "get_server", "action", "sleep" }

Ended == pc \in { "exit_ok", "exit_err", "panicked" }

\* The normal interval of the configuration in force, in seconds.
Normal == MulAdd(cfg.ping_interval_minutes, 60, 0).val

OpsOf(cs) == [ i \in DOMAIN cs |-> cs[i].op ]

IsPrefix(a, b) == Len(a) <= Len(b) /\ SubSeq(b, 1, Len(a)) = a

----------------------------------------------------------------------------
(* C1 *)

\* C1: a cycle of the monitor loop calls performAction(Unshelve) only if in that
\* cycle the probe failed, getServer succeeded and the status is exactly
\* SHELVED_OFFLOADED; a cycle whose probe succeeded, whose getServer failed or
\* whose status is any other string makes no performAction call.
UnshelveOnlyOnExactMatch ==
    \A i \in DOMAIN Cycles :
        LET c == Cycles[i]
        IN  /\ Count(c.calls, "action") > 0 =>
                /\ ProbeFailed(c.obs)
                /\ c.obs.get = "ok"
                /\ c.obs.status = "SHELVED_OFFLOADED"
            /\ ( \/ c.obs.probe = "reply"
                 \/ GetFailed(c.obs)
                 \/ (c.obs.get = "ok" /\ c.obs.status # "SHELVED_OFFLOADED") )
               => Count(c.calls, "action") = 0

\* A run in which one cycle sent Unshelve and another saw the lower-case status
\* and sent nothing.
UnshelveOnlyOnExactMatchWitness ==
    \E i, j \in DOMAIN history :
        /\ Count(history[i].calls, "action") = 1
        /\ history[j].obs.status = "shelved_offloaded"
        /\ Count(history[j].calls, "action") = 0

----------------------------------------------------------------------------
(* C2 *)

\* C2: in a cycle whose probe succeeds neither getServer nor performAction is
\* called, and the sleep that follows lasts PING_INTERVAL_MINUTES * 60 seconds,
\* 300 seconds when the variable is unset.
HealthyProbeMakesNoApiCall ==
    /\ \A i \in DOMAIN Cycles :
           Cycles[i].obs.probe = "reply" =>
               /\ Count(Cycles[i].calls, "get_server") = 0
               /\ Count(Cycles[i].calls, "action") = 0
    /\ \A i \in DOMAIN history :
           history[i].obs.probe = "reply" =>
               /\ history[i].slept = Normal
               /\ (~ env.PING_INTERVAL_MINUTES.set => history[i].slept = U64(300))
               /\ (env.PING_INTERVAL_MINUTES = Some(<< "2" >>) => history[i].slept = U64(120))

\* A cycle with a successful probe has been slept through, on the default interval.
HealthyProbeMakesNoApiCallWitness ==
    /\ ~ env.PING_INTERVAL_MINUTES.set
    /\ \E i \in DOMAIN history : history[i].obs.probe = "reply"

----------------------------------------------------------------------------
(* C3 *)

UnshelveAcked(o) ==
    ProbeFailed(o) /\ o.get = "ok" /\ o.status = "SHELVED_OFFLOADED" /\ o.act = "ack"

\* C3: the interval slept after a cycle is the recovering one (the assignment of
\* 60 seconds at line 324) if and only if the probe failed, getServer returned
\* SHELVED_OFFLOADED and performAction succeeded; after every other cycle it is
\* the normal interval.
RecoveringIffUnshelveAcked ==
    \A i \in DOMAIN history :
        LET h == history[i]
        IN  /\ (h.line = "324") <=> UnshelveAcked(h.obs)
            /\ UnshelveAcked(h.obs) => h.slept = U64(60)
            /\ ~ UnshelveAcked(h.obs) => h.line = "300" /\ h.slept = Normal

\* A run with a cycle whose Unshelve was acknowledged and a cycle whose Unshelve
\* failed.
RecoveringIffUnshelveAckedWitness ==
    \E i, j \in DOMAIN history :
        /\ UnshelveAcked(history[i].obs)
        /\ history[j].obs.act = "err"

----------------------------------------------------------------------------
(* C4 *)

\* C4: once the monitor loop has started no outcome of a cycle terminates it:
\* whatever the probe of a cycle does, with an IP address or a hostname as its
\* target, the process goes on to the sleep and never ends.
LoopNeverTerminates == (cycle > 0 /\ Count(calls, "ping") > 0) => ~ Ended

----------------------------------------------------------------------------
(* C5 *)

\* C5 as stated: the sleep is the recovering one exactly after the cycles that
\* triggered (called) the unshelve action.
RecoveringAfterEveryUnshelveCall ==
    \A i \in DOMAIN history :
        (history[i].line = "324") <=> (Count(history[i].calls, "action") > 0)

\* C5, amended: the sleep is the recovering one exactly after the cycles whose
\* unshelve action succeeded, and the normal one after every other cycle, also
\* one that follows a recovering sleep and one whose unshelve action failed; a
\* new cycle always starts from the normal interval.
RecoveringOnlyForOneSleep ==
    /\ \A i \in DOMAIN history :
           /\ (history[i].line = "324") <=> (history[i].obs.act = "ack")
           /\ history[i].obs.act # "ack" => history[i].slept = Normal
           /\ (i > 1 /\ history[i - 1].line = "324" /\ history[i].obs.act # "ack")
                  => history[i].line = "300" /\ history[i].slept = Normal
    /\ pc \in { "ping", "get_server", "action" } =>
           interval_line = "300" /\ interval = Normal

\* A recovering sleep directly followed by a cycle that sent no Unshelve and by
\* a cycle whose Unshelve failed.
RecoveringOnlyForOneSleepWitness ==
    /\ Len(history) >= 3
    /\ history[1].line = "324"
    /\ history[2].obs.act = "none"
    /\ history[3].obs.act = "err"

----------------------------------------------------------------------------
(* C6 *)

\* C6: in every operation that resolves an identifier (the monitor loop, the
\* manual unshelve, server_info), an exact lookup that finds no server is
\* followed by a search of the server listing by name, and the lookup is given
\* up only if no listed server's name contains the identifier.
LookupFallsBackToListing ==
    LET ident == IF command = "start" THEN cfg.server_name ELSE identifier.v
    IN  (obs.get = "not_found" /\ pc # "server_info_list") =>
            /\ Count(calls, "list_servers") = 1
            /\ FindByName(ident) = 0

----------------------------------------------------------------------------
(* C7 *)

\* C7: for every configuration the monitor accepts, the interval slept after a
\* successful unshelve is strictly shorter than the interval slept after any
\* other cycle.
RecoveringShorterThanNormal ==
    \A i, j \in DOMAIN history :
        (history[i].line = "324" /\ history[j].line = "300")
            => U64Less(history[i].slept, history[j].slept)

----------------------------------------------------------------------------
(* C8 *)

\* The values of the numeric variables the model draws that are no unsigned integer.
NotNumbers == { Some(<< "x" >>), Some(<< "-", "1" >>) }

ConfigRejected ==
    \/ ~ env.SERVER_NAME.set
    \/ ~ env.PING_IP.set
    \/ env.PING_INTERVAL_MINUTES \in NotNumbers
    \/ env.PING_TIMEOUT_SECONDS \in NotNumbers

\* C8: when SERVER_NAME or PING_IP is unset, or PING_INTERVAL_MINUTES or
\* PING_TIMEOUT_SECONDS is no unsigned integer, the monitor ends with a
\* configuration error before the first cycle, having made no probe, getServer
\* or performAction call; and every call of every cycle uses the server
\* identifier, ping target and timeout of the environment read at startup, and
\* every normal sleep the same interval.
ConfigErrorBeforeFirstCycle ==
    command = "start" =>
        /\ ConfigRejected =>
               /\ cycle = 0 /\ calls = << >> /\ history = << >>
               /\ pc \in { "main", "init_cloud", "start_monitoring", "exit_err", "panicked" }
        /\ (ConfigRejected /\ pc \notin { "main", "init_cloud", "start_monitoring" }) =>
               failure \in { "Failed to load environment from file",
                             "For 'raw' socket type need privileged user",
                             "Invalid socket type",
                             "Failed to authenticate with OpenStack",
                             "SERVER_NAME not set in environment",
                             "PING_IP not set in environment",
                             "PING_INTERVAL_MINUTES must be a number",
                             "PING_TIMEOUT_SECONDS must be a number" }
        /\ \A i \in DOMAIN Cycles : \A k \in DOMAIN Cycles[i].calls :
               LET c == Cycles[i].calls[k]
               IN  /\ c.op = "ping" =>
                       /\ c.id = env.PING_IP.v
                       /\ c.timeout = IF env.PING_TIMEOUT_SECONDS.set THEN U64(1) ELSE U64(3)
                   /\ c.op = "get_server" => c.id = env.SERVER_NAME.v
        /\ \A i, j \in DOMAIN history :
               (history[i].line = "300" /\ history[j].line = "300")
                   => history[i].slept = history[j].slept

\* The monitor has ended on the last configuration check, with nothing called.
ConfigErrorBeforeFirstCycleWitness ==
    /\ command = "start"
    /\ pc = "exit_err"
    /\ failure = "PING_TIMEOUT_SECONDS must be a number"
    /\ calls = << >>

----------------------------------------------------------------------------
(* C9 *)

\* C9: each cycle makes exactly one probe, at most one getServer and at most one
\* performAction call, in that order, and is complete before its sleep and
\* before the next cycle starts; a failed getServer or performAction is not
\* retried in the same cycle.
OneAttemptPerCycle ==
    /\ \A i \in DOMAIN Cycles :
           IsPrefix(OpsOf(Cycles[i].calls), << "ping", "get_server", "action" >>)
    /\ \A i \in DOMAIN history :
           LET h == history[i]
           IN  /\ Count(h.calls, "ping") = 1
               /\ Count(h.calls, "get_server") = (IF ProbeFailed(h.obs) THEN 1 ELSE 0)
               /\ Count(h.calls, "action") = (IF h.obs.act = "none" THEN 0 ELSE 1)
    /\ command = "start" =>
           /\ pc = "loop_top" => Len(history) = cycle
           /\ InCycle => Len(history) = cycle - 1
    /\ pc = "sleep" => Len(calls) >= 1

\* A cycle whose Unshelve failed after all three calls, then a later cycle that
\* called getServer again.
OneAttemptPerCycleWitness ==
    \E i, j \in DOMAIN history :
        /\ i < j
        /\ history[i].obs.act = "err"
        /\ Len(history[i].calls) = 3
        /\ Count(history[j].calls, "get_server") = 1

----------------------------------------------------------------------------
(* C10 *)

\* C10: the loop carries nothing from one cycle to the next: two cycles that get
\* the same answers make the same calls and sleep the same interval, and every
\* cycle whose probe fails and whose fetched status is SHELVED_OFFLOADED sends
\* Unshelve again, however many cycles before it already did.
CyclesAreMemoryless ==
    /\ \A i, j \in DOMAIN history :
           LET a == history[i]
               b == history[j]
           IN  /\ (a.obs.probe = "reply") = (b.obs.probe = "reply")
                      => (Count(a.calls, "get_server") = Count(b.calls, "get_server"))
               /\ ( /\ ProbeFailed(a.obs) /\ ProbeFailed(b.obs)
                    /\ a.obs.get = b.obs.get /\ a.obs.status = b.obs.status )
                      => (Count(a.calls, "action") = Count(b.calls, "action"))
               /\ ( /\ (a.obs.probe = "reply") = (b.obs.probe = "reply")
                    /\ a.obs.get = b.obs.get /\ a.obs.status = b.obs.status
                    /\ a.obs.act = b.obs.act )
                      => /\ OpsOf(a.calls) = OpsOf(b.calls)
                         /\ a.calls = b.calls
                         /\ a.slept = b.slept
    /\ \A i \in DOMAIN history :
           ( /\ ProbeFailed(history[i].obs)
             /\ history[i].obs.get = "ok"
             /\ history[i].obs.status = "SHELVED_OFFLOADED" )
               => Count(history[i].calls, "action") = 1

\* Unshelve sent in every one of MaxCycles consecutive cycles.
CyclesAreMemorylessWitness ==
    /\ Len(history) = MaxCycles
    /\ \A i \in DOMAIN history : Count(history[i].calls, "action") = 1

====
